---- MODULE Spec2Model ----
(***************************************************************************)
(* Device/Image registry and deployment orchestrator of the VDI thin       *)
(* client device manager (src/thin-client/boot/device_manager.py).         *)
(*                                                                         *)
(* Text values that the code formats, slices or rewrites (MAC addresses,   *)
(* device ids, image ids, digests, deployment ids, file names) are         *)
(* sequences of one-character strings, so that lower(), replace(), [:8]    *)
(* and f-string concatenation are computed as the code computes them.      *)
(* Python's None is the empty sequence None; the inputs never contain an   *)
(* empty string.  Each caller runs one DeviceManager method at a time;     *)
(* every database statement and every file-system access of a method is a  *)
(* separate atomic step, because each opens its own connection and no lock *)
(* spans them.                                                             *)
(***************************************************************************)
EXTENDS Integers, Sequences, FiniteSets, TLC

\* ------------------------------------------------------------------ bounds
MaxClock == 1
MaxCalls == 4

\* ------------------------------------------------------------ text helpers
None == <<>>

UpperChars == <<"A","B","C","D","E","F","G","H","I","J","K","L","M",
                "N","O","P","Q","R","S","T","U","V","W","X","Y","Z">>
LowerChars == <<"a","b","c","d","e","f","g","h","i","j","k","l","m",
                "n","o","p","q","r","s","t","u","v","w","x","y","z">>

LowerChar(c) ==
    IF \E i \in 1..26 : UpperChars[i] = c
    THEN LowerChars[CHOOSE i \in 1..26 : UpperChars[i] = c]
    ELSE c

\* str.lower()
Lower(s) == [i \in 1..Len(s) |-> LowerChar(s[i])]

\* str.replace(a, b) for one-character a and b
Replace(s, a, b) == [i \in 1..Len(s) |-> IF s[i] = a THEN b ELSE s[i]]

\* str.replace(a, '')
Remove(s, a) == SelectSeq(s, LAMBDA c : c # a)

\* s[:n]
Prefix(s, n) == SubSeq(s, 1, IF Len(s) < n THEN Len(s) ELSE n)

\* needle in haystack
Contains(hay, needle) ==
    \E i \in 0..(Len(hay) - Len(needle)) :
        SubSeq(hay, i + 1, i + Len(needle)) = needle

Digits == <<"0","1","2","3","4","5","6","7","8","9">>

\* ------------------------------------------------------------------ inputs
\* MAC notations a caller may pass: MacUpper and MacDash name the same card.
MacUpper == <<"A","A",":","B","B",":","C","C",":","D","D",":","E","E",":","F","F">>
MacDash  == <<"a","a","-","b","b","-","c","c","-","d","d","-","e","e","-","f","f">>
MacOther == <<"1","0",":","2","0",":","3","0",":","4","0",":","5","0",":","6","0">>

\* the same card as MacUpper in upper case with '-', and a string that is no MAC
MacUpperDash == <<"A","A","-","B","B","-","C","C","-","D","D","-","E","E","-","F","F">>
MacBad == <<"n","o","p","e">>

\* an explicit device id
KioskA == <<"k","i","o","s","k","-","0","1","-","a">>

Ip1 == <<"1","0",".","0",".","0",".","5">>
Ip2 == <<"1","0",".","0",".","0",".","6">>


\* source image files on the build host: path -> bytes.  ImgA and ImgB have
\* the same file name and different content.
ImgA    == [dir |-> "/build/a", name |-> "base.img"]
ImgB    == [dir |-> "/build/b", name |-> "base.img"]
ImgGone == [dir |-> "/build/a", name |-> "gone.img"]

\* ImgCopy is a copy of ImgA under another file name.  ImgX and ImgY differ in
\* content and their SHA-256 digests start with the same eight characters.
ImgCopy == [dir |-> "/build/c", name |-> "copy.img"]
ImgX    == [dir |-> "/build/x", name |-> "x.img"]
ImgY    == [dir |-> "/build/y", name |-> "y.img"]

Bytes1 == "kiosk image 1"
Bytes2 == "kiosk image two"
Bytes3 == "kiosk image 26651"
Bytes4 == "kiosk image 51679"
SrcFiles == (ImgA :> Bytes1) @@ (ImgB :> Bytes2) @@ (ImgCopy :> Bytes1)
            @@ (ImgX :> Bytes3) @@ (ImgY :> Bytes4)

Kiosk == <<"k","i","o","s","k">>
V20   == <<"2",".","0">>
MetaKiosk == [name |-> Kiosk, version |-> V20]


Callers == {1, 2}

\* ------------------------------------------------------------------- state
VARIABLES
    now,          \* wall clock, in seconds
    devices,      \* rows of table devices
    images,       \* rows of table images
    deployments,  \* rows of table deployments
    httpFiles,    \* serving directory http_root: file name -> bytes
    pxeFiles,     \* tftp_root/pxelinux.cfg: file name -> boot configuration
    usbPackages,  \* /tmp/usb-deploy-<deployment id> directories
    dhcpFile,     \* /etc/dnsmasq.d/vdi-devices.conf
    pc,           \* per caller: the statement it is about to execute
    call,         \* the call started last: its caller, the method and the arguments
    local,        \* per caller: the local variables of the running call
    ret,          \* the last return: the caller, the method and its result
    budget,       \* number of calls the callers may still start
    agent         \* the agent: commands of the last heartbeat response, loop
                  \* position, results posted, bytes last downloaded, files under /tmp

vars == <<now, devices, images, deployments, httpFiles, pxeFiles, usbPackages,
          dhcpFile, pc, call, local, ret, budget, agent>>

NoCall  == [caller |-> 0, op |-> "none"]
NoLocal == [op |-> "none"]
NoRet   == [caller |-> 0, op |-> "none"]

\* the agent between heartbeats, nothing downloaded, no update scheduled
NoScript  == [text |-> "absent", image |-> -1]
NoBytes   == ""
AgentIdle == [commands |-> << >>, next |-> 1, posted |-> << >>,
              downloads |-> << >>, received |-> NoBytes, script |-> NoScript]

Init ==
    /\ now = 0
    /\ devices = {}
    /\ images = {}
    /\ deployments = {}
    /\ httpFiles = << >>
    /\ pxeFiles = << >>
    /\ usbPackages = {}
    /\ dhcpFile = [exists |-> FALSE, lines |-> << >>]
    /\ pc = [p \in Callers |-> "idle"]
    /\ call = NoCall
    /\ local = [p \in Callers |-> NoLocal]
    /\ ret = NoRet
    /\ budget = MaxCalls
    /\ agent = AgentIdle

\* a caller may start a call when it is not inside one
CanCall(p) == pc[p] = "idle" /\ budget > 0

\* caller p enters a method
Enter(p, c) == /\ CanCall(p)
               /\ budget' = budget - 1
               /\ call' = [caller |-> p] @@ c

\* the method goes on to statement l with locals v
Goto(p, l, v) == /\ pc' = [pc EXCEPT ![p] = l]
                 /\ local' = [local EXCEPT ![p] = v]
                 /\ ret' = NoRet

\* mutant: the command exits 1 when the result says success false
ExitStatus_FromSuccess(r) == IF "success" \in DOMAIN r /\ ~r.success THEN 1 ELSE 0

\* the exit status of the command after it has printed the result r of an
\* operation: main falls off its end
ExitStatus(r) == 0

\* the method returns r to caller p
Return(p, r) == /\ pc' = [pc EXCEPT ![p] = "idle"]
                /\ local' = [local EXCEPT ![p] = NoLocal]
                /\ ret' = [caller |-> p, exit |-> ExitStatus(r)] @@ r

\* ---------------------------------------------------------- device registry
generate_device_id(mac_address) == Lower(Remove(mac_address, ":"))

NormalizeMac(mac_address) == Replace(Lower(mac_address), "-", ":")

\* mutant: mac_address is not UNIQUE, only device_id conflicts are replaced
UpsertDevice_DeviceIdOnly(rows, device_id, mac_address, ip_address, t) ==
    {r \in rows : r.device_id # device_id}
    \cup {[device_id     |-> device_id,
           mac_address   |-> mac_address,
           ip_address    |-> ip_address,
           current_image |-> None,
           target_image  |-> None,
           status        |-> "registered",
           last_seen     |-> t,
           created_at    |-> t]}

\* mutant: INSERT OR IGNORE, a conflicting row is kept as it is
UpsertDevice_KeepExisting(rows, device_id, mac_address, ip_address, t) ==
    IF \E r \in rows : r.device_id = device_id \/ r.mac_address = mac_address
    THEN rows
    ELSE rows \cup {[device_id     |-> device_id,
                     mac_address   |-> mac_address,
                     ip_address    |-> ip_address,
                     current_image |-> None,
                     target_image  |-> None,
                     status        |-> "registered",
                     last_seen     |-> t,
                     created_at    |-> t]}

\* mutant: a registration over an existing row of the device marks it online
UpsertDevice_Online(rows, device_id, mac_address, ip_address, t) ==
    {r \in rows : r.device_id # device_id /\ r.mac_address # mac_address}
    \cup {[device_id     |-> device_id,
           mac_address   |-> mac_address,
           ip_address    |-> ip_address,
           current_image |-> None,
           target_image  |-> None,
           status        |-> IF \E r \in rows : r.device_id = device_id
                             THEN "online" ELSE "registered",
           last_seen     |-> t,
           created_at    |-> t]}

\* INSERT OR REPLACE INTO devices: rows that conflict on either UNIQUE column
\* are deleted, the new row takes the column defaults for what it omits
UpsertDevice(rows, device_id, mac_address, ip_address, t) ==
    {r \in rows : r.device_id # device_id /\ r.mac_address # mac_address}
    \cup {[device_id     |-> device_id,
           mac_address   |-> mac_address,
           ip_address    |-> ip_address,
           current_image |-> None,
           target_image  |-> None,
           status        |-> "registered",
           last_seen     |-> t,
           created_at    |-> t]}

\* mutant: the WHERE clause is lost, any device row is returned
get_device_Any(device_id) == devices

get_device(device_id) == {r \in devices : r.device_id = device_id}

DhcpHost == <<"d","h","c","p","-","h","o","s","t","=">>
Lease    == <<",","2","4","h">>
reservation_line(mac_address, ip_address) ==
    DhcpHost \o mac_address \o <<",">> \o ip_address \o Lease

\* mutant: the line is appended whether or not the MAC has one already
UpdatedReservations_AlwaysAppend(file, mac_address, ip_address) ==
    IF file.exists
    THEN Append(file.lines, reservation_line(mac_address, ip_address))
    ELSE <<reservation_line(mac_address, ip_address)>>

\* create_dhcp_reservation: the new content of the reservations file, from
\* what was read
UpdatedReservations(file, mac_address, ip_address) ==
    IF file.exists
    THEN IF \E i \in 1..Len(file.lines) : Contains(file.lines[i], mac_address)
         THEN [i \in 1..Len(file.lines) |->
                  IF Contains(file.lines[i], mac_address)
                  THEN reservation_line(mac_address, ip_address)
                  ELSE file.lines[i]]
         ELSE Append(file.lines, reservation_line(mac_address, ip_address))
    ELSE <<reservation_line(mac_address, ip_address)>>

RegisterOk(device_id, mac_address) ==
    [op |-> "register_device", success |-> TRUE, device_id |-> device_id,
     mac_address |-> mac_address]

\* register_device up to and including the INSERT OR REPLACE; without an IP
\* create_dhcp_reservation returns at once and the call returns success.
\* device_info['mac_address'] raises KeyError when the key is absent, and the
\* handler returns the failure str(e)
RegisterDevice(p, mac_in, ip_in, id_in) ==
    /\ Enter(p, [op |-> "register_device", mac_address |-> mac_in,
                 ip_address |-> ip_in, device_id |-> id_in])
    /\ IF mac_in = None
       THEN /\ Return(p, [op |-> "register_device", success |-> FALSE,
                          error |-> "'mac_address'"])
            /\ UNCHANGED devices
       ELSE LET device_id   == IF id_in # None THEN id_in
                               ELSE generate_device_id(mac_in)
                mac_address == NormalizeMac(mac_in)
            IN /\ devices' = UpsertDevice(devices, device_id, mac_address, ip_in, now)
               /\ IF ip_in = None
                  THEN Return(p, RegisterOk(device_id, mac_address))
                  ELSE Goto(p, "dhcp_read", [device_id |-> device_id,
                                             mac_address |-> mac_address,
                                             ip_address |-> ip_in, content |-> << >>])
    /\ UNCHANGED <<now, images, deployments, httpFiles, pxeFiles, usbPackages, dhcpFile>>
    /\ UNCHANGED agent

\* create_dhcp_reservation: read the reservations file and build the new content
DhcpRead(p) ==
    /\ pc[p] = "dhcp_read"
    /\ Goto(p, "dhcp_write",
            [local[p] EXCEPT !.content =
                UpdatedReservations(dhcpFile, local[p].mac_address, local[p].ip_address)])
    /\ UNCHANGED <<now, devices, images, deployments, httpFiles, pxeFiles, usbPackages,
                   dhcpFile, call, budget>>
    /\ UNCHANGED agent

\* mutant: a reservation that could not be written fails the registration
AfterReservation_Propagate(written, device_id, mac_address) ==
    IF written THEN RegisterOk(device_id, mac_address)
    ELSE [op |-> "register_device", success |-> FALSE, error |-> "OSError"]

\* what register_device returns after create_dhcp_reservation: the exception
\* of a failed write is caught and logged inside create_dhcp_reservation
AfterReservation(written, device_id, mac_address) == RegisterOk(device_id, mac_address)

\* create_dhcp_reservation: rewrite the file (or fail, which is only logged),
\* then register_device returns success
DhcpWrite(p) ==
    /\ pc[p] = "dhcp_write"
    /\ \E written \in BOOLEAN :
          /\ dhcpFile' = IF written THEN [exists |-> TRUE, lines |-> local[p].content]
                         ELSE dhcpFile
          /\ Return(p, AfterReservation(written, local[p].device_id,
                                        local[p].mac_address))
    /\ UNCHANGED <<now, devices, images, deployments, httpFiles, pxeFiles, usbPackages,
                   call, budget>>
    /\ UNCHANGED agent

Tick ==
    /\ now < MaxClock
    /\ now' = now + 1
    /\ UNCHANGED <<devices, images, deployments, httpFiles, pxeFiles, usbPackages,
                   dhcpFile, pc, call, local, ret, budget>>
    /\ UNCHANGED agent

\* ----------------------------------------------------------- image registry
\* hashlib.sha256(...).hexdigest() of the source files
Digest1 ==
    <<"3","a","0","0","4","2","f","5","5","c","d","f","1","7","5","0","c",
    "e","4","b","4","1","0","b","f","8","6","e","f","2","9","3","0","9",
    "3","0","d","8","1","6","e","7","c","5","f","2","6","4","9","f","5",
    "b","5","0","2","3","8","b","2","8","4","6","c","2">>
Digest2 ==
    <<"b","a","b","b","c","e","5","b","5","d","6","3","2","d","b","8","b",
    "f","1","0","4","c","a","c","2","c","1","c","a","f","c","2","c","f",
    "d","d","6","1","b","9","b","2","b","6","2","f","5","5","f","b","4",
    "0","d","2","0","7","9","8","c","1","6","1","6","0">>

Digest3 ==
    <<"5","3","9","9","3","a","8","0","d","f","1","d","c","a","9","7","a",
    "b","6","a","6","8","6","d","0","3","b","6","4","1","9","c","9","8",
    "f","1","d","7","b","8","1","3","7","4","d","9","b","6","c","5","3",
    "5","a","9","b","d","a","a","3","f","1","4","6","8">>
Digest4 ==
    <<"5","3","9","9","3","a","8","0","3","0","0","d","2","5","d","7","6",
    "5","3","d","4","8","9","3","0","7","1","9","4","4","5","d","e","0",
    "4","c","6","7","e","9","6","9","0","3","b","3","0","d","1","3","2",
    "8","5","f","2","3","8","0","0","a","d","5","c","8">>

Sha256(bytes) == CASE bytes = Bytes1 -> Digest1
                   [] bytes = Bytes2 -> Digest2
                   [] bytes = Bytes3 -> Digest3
                   [] bytes = Bytes4 -> Digest4

\* st_size
FileSize(bytes) == CASE bytes = Bytes1 -> 13
                     [] bytes = Bytes2 -> 15
                     [] bytes = Bytes3 -> 17
                     [] bytes = Bytes4 -> 17

Unknown   == <<"u","n","k","n","o","w","n">>
UnknownUc == <<"U","n","k","n","o","w","n">>
V10       == <<"1",".","0">>

\* metadata.get(key, default)
MetaGet(v, default) == IF v = None THEN default ELSE v

\* f"{name}-{version}-{file_hash[:8]}"
MakeImageId(metadata, file_hash) ==
    MetaGet(metadata.name, Unknown) \o <<"-">> \o MetaGet(metadata.version, V10)
        \o <<"-">> \o Prefix(file_hash, 8)

HttpRoot == "/var/www/html/images"

\* mutant: the WHERE clause is lost, any image row is returned
get_image_Any(image_id) == images

get_image(image_id) == {r \in images : r.image_id = image_id}

\* INSERT OR REPLACE INTO images: image_id is the only UNIQUE column
UpsertImage(rows, row) == {r \in rows : r.image_id # row.image_id} \cup {row}

\* the serving directory after shutil.copy2 guarded by "if not exists"
CopyIfAbsent(files, name, bytes) ==
    IF name \in DOMAIN files THEN files ELSE files @@ (name :> bytes)

\* mutant: a source file that is missing reads as the bytes of ImgA
ReadSource_Placeholder(image_path) ==
    [exists |-> TRUE,
     bytes |-> IF image_path \in DOMAIN SrcFiles THEN SrcFiles[image_path] ELSE Bytes1]

\* image_path.exists() and the bytes read from it
ReadSource(image_path) ==
    IF image_path \in DOMAIN SrcFiles
    THEN [exists |-> TRUE, bytes |-> SrcFiles[image_path]]
    ELSE [exists |-> FALSE]

\* the values of the INSERT OR REPLACE
ImageRow(image_path, metadata, file_hash, bytes) ==
    [image_id    |-> MakeImageId(metadata, file_hash),
     name        |-> MetaGet(metadata.name, UnknownUc),
     version     |-> MetaGet(metadata.version, V10),
     file_path   |-> [dir |-> HttpRoot, name |-> image_path.name],
     file_size   |-> FileSize(bytes),
     sha256_hash |-> file_hash,
     metadata    |-> metadata]

\* register_image up to the copy into the serving directory: the source is
\* hashed, and copied only when no file of that name is there yet
RegisterImage(p, image_path, metadata) ==
    /\ Enter(p, [op |-> "register_image", image_path |-> image_path,
                 metadata |-> metadata])
    /\ LET src == ReadSource(image_path)
       IN IF ~src.exists
          THEN /\ Return(p, [op |-> "register_image", success |-> FALSE,
                             error |-> "Image file does not exist"])
               /\ UNCHANGED httpFiles
          ELSE LET file_hash == Sha256(src.bytes)
               IN \/ /\ httpFiles' = CopyIfAbsent(httpFiles, image_path.name, src.bytes)
                     /\ Goto(p, "image_insert",
                             [image_path |-> image_path, metadata |-> metadata,
                              file_hash |-> file_hash,
                              image_id |-> MakeImageId(metadata, file_hash)])
                  \/ /\ image_path.name \notin DOMAIN httpFiles
                     /\ UNCHANGED httpFiles
                     /\ Return(p, [op |-> "register_image", success |-> FALSE,
                                   error |-> "OSError"])
    /\ UNCHANGED <<now, devices, images, deployments, pxeFiles, usbPackages, dhcpFile>>
    /\ UNCHANGED agent

\* register_image: the INSERT OR REPLACE and the return
RegisterImageInsert(p) ==
    /\ pc[p] = "image_insert"
    /\ LET c == local[p]
           row == ImageRow(c.image_path, c.metadata, c.file_hash,
                           ReadSource(c.image_path).bytes)
       IN /\ images' = UpsertImage(images, row)
          /\ Return(p, [op |-> "register_image", success |-> TRUE,
                        image_id |-> c.image_id, file_path |-> row.file_path,
                        sha256_hash |-> c.file_hash])
    /\ UNCHANGED <<now, devices, deployments, httpFiles, pxeFiles, usbPackages,
                   dhcpFile, call, budget>>
    /\ UNCHANGED agent

\* ---------------------------------------------------- deployment orchestrator
DeployTag == <<"d","e","p","l","o","y","-">>

\* datetime.now().strftime('%Y%m%d-%H%M%S'), the clock counted in seconds
Stamp(t) == <<"2","0","2","4","0","1","0","1","-","0","0","0","0","0", Digits[t + 1]>>

\* f"deploy-{timestamp}-{device_id[:8]}"
MakeDeploymentId(t, device_id) == DeployTag \o Stamp(t) \o <<"-">> \o Prefix(device_id, 8)

NoError == "NULL"
NoRow   == [absent |-> TRUE]

\* deploy_image_to_device: load the device
Deploy(p, device_id, image_id, deployment_method) ==
    /\ Enter(p, [op |-> "deploy", device_id |-> device_id, image_id |-> image_id,
                 deployment_method |-> deployment_method])
    /\ IF get_device(device_id) = {}
       THEN Return(p, [op |-> "deploy", success |-> FALSE, error |-> "Device not found"])
       ELSE Goto(p, "deploy_load_image",
                 [device_id |-> device_id, image_id |-> image_id,
                  deployment_method |-> deployment_method,
                  device |-> CHOOSE r \in get_device(device_id) : TRUE,
                  image |-> NoRow, deployment_id |-> None, result |-> NoRow])
    /\ UNCHANGED <<now, devices, images, deployments, httpFiles, pxeFiles, usbPackages,
                   dhcpFile>>
    /\ UNCHANGED agent

\* deploy_image_to_device: load the image
DeployLoadImage(p) ==
    /\ pc[p] = "deploy_load_image"
    /\ IF get_image(local[p].image_id) = {}
       THEN Return(p, [op |-> "deploy", success |-> FALSE, error |-> "Image not found"])
       ELSE Goto(p, "deploy_insert",
                 [local[p] EXCEPT !.image = CHOOSE r \in get_image(local[p].image_id) : TRUE])
    /\ UNCHANGED <<now, devices, images, deployments, httpFiles, pxeFiles, usbPackages,
                   dhcpFile, call, budget>>
    /\ UNCHANGED agent

PendingRow(deployment_id, device_id, image_id, deployment_method, t) ==
    [deployment_id     |-> deployment_id,
     device_id         |-> device_id,
     image_id          |-> image_id,
     deployment_method |-> deployment_method,
     status            |-> "pending",
     progress          |-> 0,
     started_at        |-> t,
     error_message     |-> NoError]

\* deploy_image_to_device: allocate the deployment id and INSERT the pending
\* row; deployment_id is UNIQUE, a duplicate raises and the call returns
DeployInsert(p) ==
    /\ pc[p] = "deploy_insert"
    /\ LET c == local[p]
           deployment_id == MakeDeploymentId(now, c.device_id)
       IN IF \E r \in deployments : r.deployment_id = deployment_id
          THEN /\ Return(p, [op |-> "deploy", success |-> FALSE,
                             error |-> "UNIQUE constraint failed: deployments.deployment_id"])
               /\ UNCHANGED deployments
          ELSE /\ deployments' = deployments \cup
                      {PendingRow(deployment_id, c.device_id, c.image_id,
                                  c.deployment_method, now)}
               /\ Goto(p, "deploy_strategy", [c EXCEPT !.deployment_id = deployment_id])
    /\ UNCHANGED <<now, devices, images, httpFiles, pxeFiles, usbPackages, dhcpFile,
                   call, budget>>
    /\ UNCHANGED agent

PxeTag == <<"0","1","-">>

\* f"01-{mac_address.replace(':', '-').lower()}"
PxeConfigName(mac_address) == PxeTag \o Lower(Replace(mac_address, ":", "-"))

\* a boot configuration whose write failed after open() had truncated it
EmptyConfig == [fetch |-> "", deployment_id |-> None]

\* deploy_via_pxe: the result and the boot configurations afterwards.  The
\* image copy, the mkdir or the open of the configuration can fail, which
\* leaves the configurations as they were; write_text can also fail after the
\* open has truncated the file (cut)
deploy_via_pxe(device, image, deployment_id, ok, cut) ==
    LET image_name == image.file_path.name
        name == PxeConfigName(device.mac_address)
        cfg == [fetch |-> image_name, deployment_id |-> deployment_id]
    IN IF image_name \in DOMAIN httpFiles /\ ok
       THEN [result |-> [success |-> TRUE, method |-> "pxe", pxe_config |-> name,
                         image_url |-> image_name],
             pxe |-> [k \in DOMAIN pxeFiles \cup {name} |->
                         IF k = name THEN cfg ELSE pxeFiles[k]]]
       ELSE IF image_name \in DOMAIN httpFiles /\ cut
       THEN [result |-> [success |-> FALSE, error |-> "OSError"],
             pxe |-> [k \in DOMAIN pxeFiles \cup {name} |->
                         IF k = name THEN EmptyConfig ELSE pxeFiles[k]]]
       ELSE [result |-> [success |-> FALSE, error |-> "OSError"], pxe |-> pxeFiles]

\* deploy_via_usb: the result and the package directories afterwards
deploy_via_usb(device, image, deployment_id, ok) ==
    LET image_name == image.file_path.name
    IN IF image_name \in DOMAIN httpFiles /\ ok
       THEN [result |-> [success |-> TRUE, method |-> "usb",
                         package_directory |-> deployment_id],
             usb |-> usbPackages \cup
                       {[directory |-> deployment_id,
                         image |-> httpFiles[image_name],
                         info |-> [device_id |-> device.device_id,
                                   deployment_id |-> deployment_id,
                                   image_name |-> image.name,
                                   image_version |-> image.version]]}]
       ELSE [result |-> [success |-> FALSE, error |-> "OSError"], usb |-> usbPackages]

\* deploy_via_network: only computes what the agent must fetch and verify
deploy_via_network(device, image, deployment_id) ==
    [success |-> TRUE, method |-> "network", image_url |-> image.file_path.name,
     image_hash |-> image.sha256_hash]

\* mutant: a method that is not recognised falls back to pxe
StrategyOf_DefaultPxe(deployment_method) ==
    IF deployment_method \in {"pxe", "usb", "network"} THEN deployment_method ELSE "pxe"

\* mutant: every recognised method is served by the pxe strategy
StrategyOf_AlwaysPxe(deployment_method) ==
    IF deployment_method \in {"pxe", "usb", "network"} THEN "pxe" ELSE "unsupported"

\* the branch of the if/elif chain taken for a method
StrategyOf(deployment_method) ==
    IF deployment_method \in {"pxe", "usb", "network"} THEN deployment_method
    ELSE "unsupported"

\* f"Unsupported deployment method: {deployment_method}"
UnsupportedMethod(deployment_method) ==
    "Unsupported deployment method: " \o deployment_method

\* deploy_image_to_device: dispatch on the method
DeployStrategy(p) ==
    /\ pc[p] = "deploy_strategy"
    /\ LET c == local[p]
           strategy == StrategyOf(c.deployment_method)
       IN \E ok \in BOOLEAN :
           CASE strategy = "pxe" ->
                  \E cut \in BOOLEAN :
                     LET out == deploy_via_pxe(c.device, c.image, c.deployment_id, ok, cut)
                     IN /\ pxeFiles' = out.pxe
                        /\ Goto(p, "deploy_update", [c EXCEPT !.result = out.result])
                        /\ UNCHANGED usbPackages
             [] strategy = "usb" ->
                  LET out == deploy_via_usb(c.device, c.image, c.deployment_id, ok)
                  IN /\ usbPackages' = out.usb
                     /\ Goto(p, "deploy_update", [c EXCEPT !.result = out.result])
                     /\ UNCHANGED pxeFiles
             [] strategy = "network" ->
                  /\ ok
                  /\ Goto(p, "deploy_update",
                          [c EXCEPT !.result =
                              deploy_via_network(c.device, c.image, c.deployment_id)])
                  /\ UNCHANGED <<pxeFiles, usbPackages>>
             [] OTHER ->
                  /\ ok
                  /\ Goto(p, "deploy_update",
                          [c EXCEPT !.result =
                              [success |-> FALSE,
                               error |-> UnsupportedMethod(c.deployment_method)]])
                  /\ UNCHANGED <<pxeFiles, usbPackages>>
    /\ UNCHANGED <<now, devices, images, deployments, httpFiles, dhcpFile, call, budget>>
    /\ UNCHANGED agent

\* mutant: the UPDATE matches no row
UpdateDeployment_Lost(rows, deployment_id, status, error_message, t) == rows

\* UPDATE deployments SET status, error_message, started_at WHERE deployment_id
UpdateDeployment(rows, deployment_id, status, error_message, t) ==
    {IF r.deployment_id = deployment_id
     THEN [r EXCEPT !.status = status, !.error_message = error_message, !.started_at = t]
     ELSE r : r \in rows}

\* mutant: the row is marked deploying whatever the strategy reported
StatusOf_AlwaysDeploying(result) == "deploying"

\* mutant: a successful dispatch is recorded as completed
StatusOf_Completed(result) == IF result.success THEN "completed" ELSE "failed"

\* mutant: the row of a failed dispatch is left as it was inserted
StatusOf_KeepPending(result) == IF result.success THEN "deploying" ELSE "pending"

\* status and error_message written for a strategy result
StatusOf(result) == IF result.success THEN "deploying" ELSE "failed"
ErrorOf(result) == IF ~result.success THEN result.error ELSE NoError

\* deploy_image_to_device: record the outcome and return the strategy's result
DeployUpdate(p) ==
    /\ pc[p] = "deploy_update"
    /\ LET c == local[p]
       IN /\ deployments' = UpdateDeployment(deployments, c.deployment_id,
                                             StatusOf(c.result), ErrorOf(c.result), now)
          /\ Return(p, [op |-> "deploy", deployment_id |-> c.deployment_id] @@ c.result)
    /\ UNCHANGED <<now, devices, images, httpFiles, pxeFiles, usbPackages, dhcpFile,
                   call, budget>>
    /\ UNCHANGED agent

\* cleanup_deployment: load the device
Cleanup(p, device_id) ==
    /\ Enter(p, [op |-> "cleanup", device_id |-> device_id])
    /\ IF get_device(device_id) = {}
       THEN Return(p, [op |-> "cleanup", success |-> FALSE])
       ELSE Goto(p, "cleanup_unlink",
                 [device |-> CHOOSE r \in get_device(device_id) : TRUE])
    /\ UNCHANGED <<now, devices, images, deployments, httpFiles, pxeFiles, usbPackages,
                   dhcpFile>>
    /\ UNCHANGED agent

\* mutant: the whole directory is emptied
Unlink_All(files, name) == << >>

\* the boot configuration directory without the file called name
Unlink(files, name) == [k \in DOMAIN files \ {name} |-> files[k]]

\* mutant: the exists() test is lost, unlink is called whatever is there
ArtifactExists_Always(name) == TRUE

\* pxe_config_file.exists()
ArtifactExists(name) == name \in DOMAIN pxeFiles

\* cleanup_deployment: remove the device's boot configuration if it is there;
\* an unlink that raises makes the call return False
CleanupUnlink(p) ==
    /\ pc[p] = "cleanup_unlink"
    /\ LET name == PxeConfigName(local[p].device.mac_address)
       IN IF ArtifactExists(name)
          THEN \/ /\ name \in DOMAIN pxeFiles
                  /\ pxeFiles' = Unlink(pxeFiles, name)
                  /\ Return(p, [op |-> "cleanup", success |-> TRUE])
               \/ /\ UNCHANGED pxeFiles
                  /\ Return(p, [op |-> "cleanup", success |-> FALSE])
          ELSE /\ UNCHANGED pxeFiles
               /\ Return(p, [op |-> "cleanup", success |-> TRUE])
    /\ UNCHANGED <<now, devices, images, deployments, httpFiles, usbPackages, dhcpFile,
                   call, budget>>
    /\ UNCHANGED agent

\* ------------------------------------------------------------ command surface
\* args as argparse leaves them: an option that was not given is None (here
\* also "" for the ones compared as text, which the code treats alike)
NoText == ""
NoPath == [dir |-> "", name |-> ""]
Commands == {"register", "deploy", "list", "cleanup", "register-image"}
Methods  == {"pxe", "usb", "network"}

JsonKiosk  == "{\"name\": \"kiosk\", \"version\": \"2.0\"}"
JsonBroken == "{\"name\": "
EmptyMeta  == [name |-> None, version |-> None]

\* json.loads on the metadata texts of the model: the object, or
\* JSONDecodeError
json_loads(text) ==
    IF text = JsonKiosk THEN [ok |-> TRUE, value |-> MetaKiosk]
    ELSE [ok |-> FALSE, value |-> EmptyMeta]

\* --method, default 'pxe'
MethodOf(args) == IF args.method = NoText THEN "pxe" ELSE args.method

\* metadata = {} unless --metadata is given
MetadataOf(args) ==
    IF args.metadata = NoText THEN EmptyMeta ELSE json_loads(args.metadata).value

\* the exit status with which main leaves before it calls an operation, 0 when
\* it goes on to the call: parse_args exits 2 on a value outside the choices,
\* the checks of each command exit 1
Validate(args) ==
    IF args.command \notin Commands \/ MethodOf(args) \notin Methods THEN 2
    ELSE CASE args.command = "register" ->
                 IF args.mac_address = None THEN 1 ELSE 0
           [] args.command = "deploy" ->
                 IF args.device_id = None \/ args.image_id = None THEN 1 ELSE 0
           [] args.command = "cleanup" ->
                 IF args.device_id = None THEN 1 ELSE 0
           [] args.command = "register-image" ->
                 IF args.image_path = NoPath THEN 1
                 ELSE IF args.metadata # NoText /\ ~json_loads(args.metadata).ok THEN 1
                 ELSE 0
           [] OTHER -> 0

\* what main prints before sys.exit, and the usage error of argparse
Complaint(args) ==
    IF args.command \notin Commands \/ MethodOf(args) \notin Methods
    THEN "invalid choice"
    ELSE CASE args.command = "register" ->
                 "ERROR: MAC address is required for device registration"
           [] args.command = "deploy" ->
                 "ERROR: Device ID and Image ID are required for deployment"
           [] args.command = "cleanup" -> "ERROR: Device ID is required for cleanup"
           [] args.command = "register-image" ->
                 IF args.image_path = NoPath
                 THEN "ERROR: Image path is required for image registration"
                 ELSE "ERROR: Invalid JSON metadata"
           [] OTHER -> ""

\* list_devices and list_deployments: the rows selected (their order is left
\* out)
list_devices(status) ==
    {r \in devices : status = NoText \/ r.status = status}
list_deployments(device_id, status) ==
    {r \in deployments : /\ device_id = None \/ r.device_id = device_id
                         /\ status = NoText \/ r.status = status}

\* main with command list: prints the rows
List(p, device_id, status) ==
    /\ Enter(p, [op |-> "list", device_id |-> device_id, status |-> status])
    /\ Return(p, [op |-> "list",
                  rows |-> IF device_id # None THEN list_deployments(device_id, status)
                           ELSE list_devices(status)])
    /\ UNCHANGED <<now, devices, images, deployments, httpFiles, pxeFiles, usbPackages,
                   dhcpFile>>
    /\ UNCHANGED agent

\* main leaves with sys.exit before any operation is called
Reject(p, args) ==
    /\ CanCall(p)
    /\ budget' = budget - 1
    /\ call' = [caller |-> p, op |-> "main", args |-> args]
    /\ ret' = [caller |-> p, op |-> "main", exit |-> Validate(args),
               error |-> Complaint(args)]
    /\ UNCHANGED <<now, devices, images, deployments, httpFiles, pxeFiles, usbPackages,
                   dhcpFile, pc, local>>
    /\ UNCHANGED agent

\* main: one invocation of the command line
Main(p, args) ==
    IF Validate(args) # 0 THEN Reject(p, args)
    ELSE CASE args.command = "register" ->
                 RegisterDevice(p, args.mac_address, args.ip_address, args.device_id)
           [] args.command = "deploy" ->
                 Deploy(p, args.device_id, args.image_id, MethodOf(args))
           [] args.command = "cleanup" -> Cleanup(p, args.device_id)
           [] args.command = "register-image" ->
                 RegisterImage(p, args.image_path, MetadataOf(args))
           [] OTHER -> List(p, args.device_id, args.status)

\* ------------------------------------------------------------------- agent
\* the elements of 'commands' in a heartbeat response: JSON objects with the
\* id, the type and the data of a command, or another JSON value (a string).
\* data is the JSON value under 'data': an object with the options of the
\* command, or something else (null)
Options(image_url, image_hash) ==
    [kind |-> "object", image_url |-> image_url, image_hash |-> image_hash]
NoOptions == Options("", None)
Null      == [kind |-> "null", image_url |-> "", image_hash |-> None]

Object(id, type, data) == [json |-> "object", id |-> id, type |-> type, data |-> data]
Text == [json |-> "string", id |-> "", type |-> "", data |-> Null]

CmdUpdate     == Object("c1", "update_image", Options(ImgA.name, Digest1))
CmdUpdateOld  == Object("c2", "update_image", Options(ImgA.name, Digest2))
CmdUpdateGone == Object("c3", "update_image", Options(ImgGone.name, Digest1))
CmdScript     == Object("c4", "execute_script", NoOptions)
CmdNoData     == Object("c5", "collect_logs", Null)
CmdUnknown    == Object("c6", "format_disk", NoOptions)

\* the command types handle_command dispatches on
CommandTypes == {"execute_script", "restart_system", "update_config",
                 "install_package", "update_image", "collect_logs", "restart_service"}

\* what a download can deliver: the file served, or other bytes
Partial == "kiosk im"
Delivered(image_url) == {httpFiles[image_url], Bytes2}

\* f"/tmp/update-{int(time.time())}.img"
TempImage(t) == t

\* /tmp/vdi-update.sh: the script that installs temp_image at the next
\* reboot, and the script left by a write that failed after the open
UpdateScript(temp_image) == [text |-> "cp", image |-> temp_image]
EmptyScript == [text |-> "", image |-> -1]

\* mutant: the downloaded image is accepted whatever its hash
Verified_Always(calculated_hash, image_hash) == TRUE

\* calculated_hash != image_hash is false
Verified(calculated_hash, image_hash) == calculated_hash = image_hash

\* update_image: the result, the downloaded files, the bytes read back from
\* the download and the update script afterwards.  got is what the download delivered ("refused": the request
\* raised, "broken": the stream raised after part of the file was written),
\* ok is whether the script could be written ("cut": the write failed after
\* the open had truncated the script)
update_image(image_url, image_hash, got, ok) ==
    LET temp_image == TempImage(now)
        kept(bytes) == [t \in DOMAIN agent.downloads \cup {temp_image} |->
                           IF t = temp_image THEN bytes ELSE agent.downloads[t]]
        removed == [t \in DOMAIN agent.downloads \ {temp_image} |-> agent.downloads[t]]
    IN CASE got = "refused" ->
              [result |-> [success |-> FALSE, error |-> "HTTPError"],
               downloads |-> agent.downloads, received |-> NoBytes,
               script |-> agent.script]
         [] got = "broken" ->
              [result |-> [success |-> FALSE, error |-> "ChunkedEncodingError"],
               downloads |-> kept(Partial), received |-> NoBytes,
               script |-> agent.script]
         [] OTHER ->
              IF ~Verified(Sha256(got), image_hash)
              THEN [result |-> [success |-> FALSE, error |-> "Image hash mismatch"],
                    downloads |-> removed, received |-> got,
                    script |-> agent.script]
              ELSE IF ok = "written"
              THEN [result |-> [success |-> TRUE, error |-> ""],
                    downloads |-> kept(got), received |-> got,
                    script |-> UpdateScript(temp_image)]
              ELSE [result |-> [success |-> FALSE, error |-> "OSError"],
                    downloads |-> kept(got), received |-> got,
                    script |-> IF ok = "cut" THEN EmptyScript ELSE agent.script]

\* send_command_result: one POST of the result, whether or not it arrives
send_command_result(posted, command_id, result) ==
    Append(posted, [command_id |-> command_id, result |-> result])

\* handle_command, the except branch: the failure is posted under the id of
\* the command
Raised(posted, command) ==
    send_command_result(posted, command.id,
                        [success |-> FALSE, error |-> "AttributeError"])

\* send_heartbeat with a response of status 200: the commands are taken up
Heartbeat(commands) ==
    /\ agent.next > Len(agent.commands)
    /\ budget > 0
    /\ budget' = budget - 1
    /\ agent' = [agent EXCEPT !.commands = commands, !.next = 1, !.posted = << >>]
    /\ UNCHANGED <<now, devices, images, deployments, httpFiles, pxeFiles, usbPackages,
                   dhcpFile, pc, call, local, ret>>

\* send_heartbeat, one turn of the loop over the commands: handle_command
\* runs the command and posts its result.  An element that is not an object
\* has no get: handle_command raises, raises again where it looks up the id
\* to post the failure, and send_heartbeat leaves the loop
HandleCommand ==
    /\ agent.next <= Len(agent.commands)
    /\ LET command == agent.commands[agent.next]
           done(a) == [a EXCEPT !.next = agent.next + 1]
       IN IF command.json # "object"
          THEN agent' = [agent EXCEPT !.next = Len(agent.commands) + 1]
          ELSE IF command.type \notin CommandTypes
          THEN agent' = done([agent EXCEPT !.posted =
                   send_command_result(agent.posted, command.id,
                       [success |-> FALSE, error |-> "Unknown command type"])])
          ELSE IF command.data.kind # "object"
          THEN agent' = done([agent EXCEPT !.posted = Raised(agent.posted, command)])
          ELSE IF command.type = "update_image"
          THEN \E got \in {"refused", "broken"}
                          \cup (IF command.data.image_url \in DOMAIN httpFiles
                                THEN Delivered(command.data.image_url) ELSE {}),
                  ok \in {"written", "cut", "failed"} :
                  LET out == update_image(command.data.image_url,
                                          command.data.image_hash, got, ok)
                  IN agent' = done([agent EXCEPT
                         !.downloads = out.downloads,
                         !.received = out.received,
                         !.script = out.script,
                         !.posted = send_command_result(agent.posted, command.id,
                                                        out.result)])
          ELSE \E ok \in BOOLEAN :
                  agent' = done([agent EXCEPT !.posted =
                      send_command_result(agent.posted, command.id,
                          [success |-> ok, error |-> IF ok THEN "" ELSE "OSError"])])
    /\ UNCHANGED <<now, devices, images, deployments, httpFiles, pxeFiles, usbPackages,
                   dhcpFile, pc, call, local, ret, budget>>

\* ------------------------------------------------------------ specification
DerivedId == <<"a","a","b","b","c","c","d","d","e","e","f","f">>
Image1 == MakeImageId(MetaKiosk, Digest1)
Image2 == MakeImageId(MetaKiosk, Digest2)

\* the calls issued one at a time
RegisterInputs ==
    {[mac |-> MacUpper, ip |-> Ip1,  id |-> None],
     [mac |-> MacUpper, ip |-> Ip2,  id |-> None],
     [mac |-> MacDash,  ip |-> None, id |-> KioskA],
     [mac |-> MacOther, ip |-> Ip2,  id |-> KioskA]}
ImageInputs ==
    {[path |-> ImgA,    meta |-> MetaKiosk],
     [path |-> ImgB,    meta |-> MetaKiosk],
     [path |-> ImgGone, meta |-> MetaKiosk]}
DeployInputs ==
    {[device |-> DerivedId, image |-> Image1, method |-> "pxe"],
     [device |-> KioskA,    image |-> Image1, method |-> "pxe"],
     [device |-> DerivedId, image |-> Image2, method |-> "network"],
     [device |-> DerivedId, image |-> Image1, method |-> "usb"],
     [device |-> DerivedId, image |-> Image1, method |-> "ftp"]}
CleanupInputs == {DerivedId, KioskA}

\* one invocation of the command line at a time: only caller 1 acts
Solo == {1}

Next ==
    \/ \E p \in Solo, r \in RegisterInputs : RegisterDevice(p, r.mac, r.ip, r.id)
    \/ \E p \in Solo : DhcpRead(p)
    \/ \E p \in Solo : DhcpWrite(p)
    \/ \E p \in Solo, i \in ImageInputs : RegisterImage(p, i.path, i.meta)
    \/ \E p \in Solo : RegisterImageInsert(p)
    \/ \E p \in Solo, d \in DeployInputs : Deploy(p, d.device, d.image, d.method)
    \/ \E p \in Solo : DeployLoadImage(p)
    \/ \E p \in Solo : DeployInsert(p)
    \/ \E p \in Solo : DeployStrategy(p)
    \/ \E p \in Solo : DeployUpdate(p)
    \/ \E p \in Solo, d \in CleanupInputs : Cleanup(p, d)
    \/ \E p \in Solo : CleanupUnlink(p)
    \/ Tick

Spec == Init /\ [][Next]_vars

\* the calls issued by invocations that overlap
ConcurrentRegisterInputs ==
    {[mac |-> MacUpper, ip |-> Ip1,  id |-> None],
     [mac |-> MacDash,  ip |-> Ip2,  id |-> KioskA],
     [mac |-> MacOther, ip |-> None, id |-> KioskA]}
ConcurrentImageInputs == {[path |-> ImgA, meta |-> MetaKiosk]}
ConcurrentDeployInputs ==
    {[device |-> DerivedId, image |-> Image1, method |-> "pxe"],
     [device |-> KioskA,    image |-> Image1, method |-> "network"]}
ConcurrentCleanupInputs == {DerivedId}

\* invocations of the command line overlap: every statement of one may fall
\* between two statements of the other
NextConcurrent ==
    \/ \E p \in Callers, r \in ConcurrentRegisterInputs :
          RegisterDevice(p, r.mac, r.ip, r.id)
    \/ \E p \in Callers : DhcpRead(p)
    \/ \E p \in Callers : DhcpWrite(p)
    \/ \E p \in Callers, i \in ConcurrentImageInputs : RegisterImage(p, i.path, i.meta)
    \/ \E p \in Callers : RegisterImageInsert(p)
    \/ \E p \in Callers, d \in ConcurrentDeployInputs :
          Deploy(p, d.device, d.image, d.method)
    \/ \E p \in Callers : DeployLoadImage(p)
    \/ \E p \in Callers : DeployInsert(p)
    \/ \E p \in Callers : DeployStrategy(p)
    \/ \E p \in Callers : DeployUpdate(p)
    \/ \E p \in Callers, d \in ConcurrentCleanupInputs : Cleanup(p, d)
    \/ \E p \in Callers : CleanupUnlink(p)
    \/ Tick

SpecConcurrent == Init /\ [][NextConcurrent]_vars


\* boot configurations: one image is registered beforehand and one device is
\* registered, deployed to and registered again, its network card replaced
InitArtifacts ==
    /\ now = 0
    /\ devices = {}
    /\ images = {ImageRow(ImgA, MetaKiosk, Digest1, Bytes1)}
    /\ deployments = {}
    /\ httpFiles = (ImgA.name :> Bytes1)
    /\ pxeFiles = << >>
    /\ usbPackages = {}
    /\ dhcpFile = [exists |-> FALSE, lines |-> << >>]
    /\ pc = [p \in Callers |-> "idle"]
    /\ call = NoCall
    /\ local = [p \in Callers |-> NoLocal]
    /\ ret = NoRet
    /\ budget = MaxCalls
    /\ agent = AgentIdle

ArtifactRegisterInputs ==
    {[mac |-> MacDash,  ip |-> None, id |-> KioskA],
     [mac |-> MacOther, ip |-> None, id |-> KioskA]}
ArtifactImageInputs == {[path |-> ImgCopy, meta |-> MetaKiosk]}
ArtifactDeployInputs == {[device |-> KioskA, image |-> Image1, method |-> "pxe"]}
ArtifactCleanupInputs == {KioskA}

NextArtifacts ==
    \/ \E p \in Solo, r \in ArtifactRegisterInputs : RegisterDevice(p, r.mac, r.ip, r.id)
    \/ \E p \in Solo, i \in ArtifactImageInputs : RegisterImage(p, i.path, i.meta)
    \/ \E p \in Solo : RegisterImageInsert(p)
    \/ \E p \in Solo, d \in ArtifactDeployInputs :
          Deploy(p, d.device, d.image, d.method)
    \/ \E p \in Solo : DeployLoadImage(p)
    \/ \E p \in Solo : DeployInsert(p)
    \/ \E p \in Solo : DeployStrategy(p)
    \/ \E p \in Solo : DeployUpdate(p)
    \/ \E p \in Solo, d \in ArtifactCleanupInputs : Cleanup(p, d)
    \/ \E p \in Solo : CleanupUnlink(p)
    \/ Tick

SpecArtifacts == InitArtifacts /\ [][NextArtifacts]_vars

\* the image registry on its own, one register-image call at a time
ImageRegistryInputs ==
    {[path |-> ImgA,    meta |-> MetaKiosk],
     [path |-> ImgB,    meta |-> MetaKiosk],
     [path |-> ImgCopy, meta |-> MetaKiosk],
     [path |-> ImgX,    meta |-> MetaKiosk],
     [path |-> ImgY,    meta |-> MetaKiosk],
     [path |-> ImgGone, meta |-> MetaKiosk]}

NextImages ==
    \/ \E p \in Solo, i \in ImageRegistryInputs : RegisterImage(p, i.path, i.meta)
    \/ \E p \in Solo : RegisterImageInsert(p)

SpecImages == Init /\ [][NextImages]_vars

\* the device registry on its own, one register-device call at a time, with
\* every notation of one MAC, a string that is no MAC, and no MAC at all
DeviceRegistryInputs ==
    {[mac |-> MacUpper,     ip |-> Ip1,  id |-> None],
     [mac |-> MacUpperDash, ip |-> Ip2,  id |-> None],
     [mac |-> MacDash,      ip |-> None, id |-> None],
     [mac |-> MacOther,     ip |-> Ip2,  id |-> KioskA],
     [mac |-> MacBad,       ip |-> Ip1,  id |-> None],
     [mac |-> None,         ip |-> Ip1,  id |-> None],
     [mac |-> None,         ip |-> None, id |-> KioskA]}

NextDevices ==
    \/ \E p \in Solo, r \in DeviceRegistryInputs : RegisterDevice(p, r.mac, r.ip, r.id)
    \/ \E p \in Solo : DhcpRead(p)
    \/ \E p \in Solo : DhcpWrite(p)
    \/ Tick

SpecDevices == Init /\ [][NextDevices]_vars

\* cleanup: two devices and one image are registered beforehand; boot
\* configurations are written by pxe deploys and removed by cleanup
InitCleanup ==
    /\ now = 0
    /\ devices = UpsertDevice(UpsertDevice({}, DerivedId, NormalizeMac(MacUpper), None, 0),
                              KioskA, NormalizeMac(MacOther), None, 0)
    /\ images = {ImageRow(ImgA, MetaKiosk, Digest1, Bytes1)}
    /\ deployments = {}
    /\ httpFiles = (ImgA.name :> Bytes1)
    /\ pxeFiles = << >>
    /\ usbPackages = {}
    /\ dhcpFile = [exists |-> FALSE, lines |-> << >>]
    /\ pc = [p \in Callers |-> "idle"]
    /\ call = NoCall
    /\ local = [p \in Callers |-> NoLocal]
    /\ ret = NoRet
    /\ budget = MaxCalls
    /\ agent = AgentIdle

CleanupDeployInputs ==
    {[device |-> DerivedId, image |-> Image1, method |-> "pxe"],
     [device |-> KioskA,    image |-> Image1, method |-> "pxe"]}

NextCleanup ==
    \/ \E p \in Solo, d \in CleanupDeployInputs : Deploy(p, d.device, d.image, d.method)
    \/ \E p \in Solo : DeployLoadImage(p)
    \/ \E p \in Solo : DeployInsert(p)
    \/ \E p \in Solo : DeployStrategy(p)
    \/ \E p \in Solo : DeployUpdate(p)
    \/ \E p \in Solo, d \in CleanupInputs : Cleanup(p, d)
    \/ \E p \in Solo : CleanupUnlink(p)
    \/ Tick

SpecCleanup == InitCleanup /\ [][NextCleanup]_vars

\* the invocations of the command line, one at a time
NoArgs == [command |-> "list", device_id |-> None, mac_address |-> None,
           ip_address |-> None, image_id |-> None, image_path |-> NoPath,
           method |-> NoText, status |-> NoText, metadata |-> NoText]
CliInputs ==
    {[NoArgs EXCEPT !.command = "register", !.mac_address = MacUpper, !.ip_address = Ip1],
     [NoArgs EXCEPT !.command = "register", !.ip_address = Ip1],
     [NoArgs EXCEPT !.command = "register-image", !.image_path = ImgA,
                    !.metadata = JsonKiosk],
     [NoArgs EXCEPT !.command = "register-image", !.image_path = ImgA],
     [NoArgs EXCEPT !.command = "register-image", !.image_path = ImgGone,
                    !.metadata = JsonKiosk],
     [NoArgs EXCEPT !.command = "register-image", !.image_path = ImgA,
                    !.metadata = JsonBroken],
     [NoArgs EXCEPT !.command = "register-image", !.metadata = JsonKiosk],
     [NoArgs EXCEPT !.command = "deploy", !.device_id = DerivedId, !.image_id = Image1],
     [NoArgs EXCEPT !.command = "deploy", !.device_id = DerivedId, !.image_id = Image1,
                    !.method = "usb"],
     [NoArgs EXCEPT !.command = "deploy", !.device_id = KioskA, !.image_id = Image1,
                    !.method = "network"],
     [NoArgs EXCEPT !.command = "deploy", !.device_id = DerivedId, !.image_id = Image2],
     [NoArgs EXCEPT !.command = "deploy", !.device_id = DerivedId],
     [NoArgs EXCEPT !.command = "deploy", !.image_id = Image1],
     [NoArgs EXCEPT !.command = "deploy", !.device_id = DerivedId, !.image_id = Image1,
                    !.method = "ftp"],
     [NoArgs EXCEPT !.command = "cleanup", !.device_id = DerivedId],
     [NoArgs EXCEPT !.command = "cleanup", !.device_id = KioskA],
     [NoArgs EXCEPT !.command = "cleanup"],
     [NoArgs EXCEPT !.command = "list"],
     [NoArgs EXCEPT !.command = "list", !.device_id = DerivedId, !.status = "deploying"],
     [NoArgs EXCEPT !.command = "status"]}

NextCli ==
    \/ \E p \in Solo, args \in CliInputs : Main(p, args)
    \/ \E p \in Solo : DhcpRead(p)
    \/ \E p \in Solo : DhcpWrite(p)
    \/ \E p \in Solo : RegisterImageInsert(p)
    \/ \E p \in Solo : DeployLoadImage(p)
    \/ \E p \in Solo : DeployInsert(p)
    \/ \E p \in Solo : DeployStrategy(p)
    \/ \E p \in Solo : DeployUpdate(p)
    \/ \E p \in Solo : CleanupUnlink(p)
    \/ Tick

SpecCli == Init /\ [][NextCli]_vars

\* deploy calls of two invocations that overlap, each running to its end: a
\* call that has started executes its next statement
PendingDeployInputs ==
    {[device |-> DerivedId, image |-> Image1, method |-> "pxe"]}

NextPending ==
    \/ \E p \in Callers, d \in PendingDeployInputs : Deploy(p, d.device, d.image, d.method)
    \/ \E p \in Callers : DeployLoadImage(p)
    \/ \E p \in Callers : DeployInsert(p)
    \/ \E p \in Callers : DeployStrategy(p)
    \/ \E p \in Callers : DeployUpdate(p)
    \/ Tick

SpecPending ==
    /\ InitCleanup
    /\ [][NextPending]_vars
    /\ \A p \in Callers : /\ WF_vars(DeployLoadImage(p))
                          /\ WF_vars(DeployInsert(p))
                          /\ WF_vars(DeployStrategy(p))
                          /\ WF_vars(DeployUpdate(p))

\* two invocations that register different cards, each with an IP
ReservationInputs ==
    {[mac |-> MacUpper, ip |-> Ip1, id |-> None],
     [mac |-> MacOther, ip |-> Ip2, id |-> KioskA]}

NextReservations ==
    \/ \E p \in Callers, r \in ReservationInputs : RegisterDevice(p, r.mac, r.ip, r.id)
    \/ \E p \in Callers : DhcpRead(p)
    \/ \E p \in Callers : DhcpWrite(p)
    \/ Tick

SpecReservations == Init /\ [][NextReservations]_vars

\* the heartbeat responses: lists of commands
Responses ==
    {<<CmdUpdate, CmdUnknown>>,
     <<CmdUpdateOld, CmdUpdate>>,
     <<CmdNoData, CmdScript>>,
     <<CmdUpdateGone>>,
     <<Text, CmdScript>>,
     << >>}

\* the agent loop: a heartbeat, then the commands of the response one after
\* the other; the loop over the commands runs to its end
NextAgent ==
    \/ \E commands \in Responses : Heartbeat(commands)
    \/ HandleCommand
    \/ Tick

SpecAgent == InitCleanup /\ [][NextAgent]_vars /\ WF_vars(HandleCommand)

\* ------------------------------------------------------------------ claims
Store == <<devices, images, deployments, httpFiles, pxeFiles, usbPackages, dhcpFile>>

\* caller p starts a call in this step
Started(p) == budget' = budget - 1 /\ call'.caller = p

\* caller p executes a statement in this step
Acts(p) == Started(p) \/ pc'[p] # pc[p]

\* r reports the failure msg
Failed(r, msg) == "error" \in DOMAIN r /\ ~r.success /\ r.error = msg

InRegister(p) == pc[p] \in {"dhcp_read", "dhcp_write"}

\* the deploy call of caller p has loaded the device and not yet updated its row
InFlight(p) == pc[p] \in {"deploy_load_image", "deploy_insert", "deploy_strategy",
                          "deploy_update"}

\* C1: after any sequence and interleaving of register-device calls no two
\* device rows share a device_id and no two device rows share a mac_address
C1_DeviceKeysUnique ==
    \A r1, r2 \in devices :
        (r1.device_id = r2.device_id \/ r1.mac_address = r2.mac_address) => r1 = r2

\* two register-device calls for the same MAC with different IPs overlap
C1_Witness ==
    \E p, q \in Callers :
        /\ p # q /\ InRegister(p) /\ InRegister(q)
        /\ local[p].mac_address = local[q].mac_address
        /\ local[p].ip_address # local[q].ip_address
        /\ \E r \in devices : r.mac_address = local[p].mac_address

\* C2: every deployment row's device_id is the device_id of a device row that
\* exists in the store at that moment
C2_DeploymentsReferenceDevices ==
    \A d \in deployments : \E r \in devices : r.device_id = d.device_id

\* C3: each device has at most one in-flight deployment, also when deploy
\* calls interleave
C3_OneInFlightPerDevice ==
    \A p, q \in Callers :
        (p # q /\ InFlight(p) /\ InFlight(q))
            => local[p].device.device_id # local[q].device.device_id

\* a deployment row keeps its identity, and its status stays or goes from
\* pending to deploying or failed
StatusStep(r, r2) ==
    /\ r2.deployment_id = r.deployment_id
    /\ r2.device_id = r.device_id
    /\ r2.image_id = r.image_id
    /\ r2.deployment_method = r.deployment_method
    /\ \/ r2.status = r.status
       \/ r.status = "pending" /\ r2.status \in {"deploying", "failed"}

\* C4: a deployment row changes status once, from pending to deploying or to
\* failed, never again afterwards, and never has a status outside pending,
\* deploying, failed; a row that is still pending belongs to a running deploy
\* call that has yet to update it
C4_StatusChangesOnce ==
    /\ [][/\ \A r \in deployments : \E r2 \in deployments' : StatusStep(r, r2)
          /\ \A r2 \in deployments' :
                (\A r \in deployments : r.deployment_id # r2.deployment_id)
                    => r2.status = "pending"]_vars
    /\ [](\A r \in deployments :
            /\ r.status \in {"pending", "deploying", "failed"}
            /\ r.status = "pending" =>
                  \E p \in Callers : /\ pc[p] \in {"deploy_strategy", "deploy_update"}
                                     /\ local[p].deployment_id = r.deployment_id)

\* one row has gone to deploying and another to failed
C4_Witness ==
    \E r1, r2 \in deployments : r1.status = "deploying" /\ r2.status = "failed"

\* C5: for every image row the stored sha256_hash is the SHA-256 of the bytes
\* stored at the row's file_path in the serving directory
C5_HashMatchesStoredBytes ==
    \A r \in images :
        /\ r.file_path.name \in DOMAIN httpFiles
        /\ Sha256(httpFiles[r.file_path.name]) = r.sha256_hash

\* C6: a device_id that has been registered stays registered
C6_DeviceStaysRegistered ==
    [][\A r \in devices : \E r2 \in devices' : r2.device_id = r.device_id]_vars

\* C7: registering a MAC that is already registered with another IP (the
\* device_id derived from the MAC) leaves exactly one device row for that MAC,
\* and its ip_address is the IP of the later registration
C7_LatestIpRetained ==
    [][\A p \in Callers :
          (/\ Started(p)
           /\ call'.op = "register_device"
           /\ call'.device_id = None
           /\ \E r \in devices : /\ r.mac_address = NormalizeMac(call'.mac_address)
                                 /\ r.ip_address # call'.ip_address)
          => /\ Cardinality({r \in devices' :
                                r.mac_address = NormalizeMac(call'.mac_address)}) = 1
             /\ \A r \in devices' :
                   r.mac_address = NormalizeMac(call'.mac_address)
                       => r.ip_address = call'.ip_address]_vars

\* the MAC was registered with Ip1 (its reservation line is on file) and has
\* just been registered again, with Ip2
C7_Witness ==
    /\ call.op = "register_device"
    /\ call.device_id = None
    /\ call.ip_address = Ip2
    /\ pc[call.caller] = "dhcp_read"
    /\ dhcpFile.exists
    /\ \E i \in 1..Len(dhcpFile.lines) :
          dhcpFile.lines[i] = reservation_line(NormalizeMac(call.mac_address), Ip1)
    /\ \E r \in devices : /\ r.mac_address = NormalizeMac(call.mac_address)
                          /\ r.ip_address = Ip2

\* C8: deploy for a device_id that is not registered returns the not-found
\* failure and leaves every table and artifact unchanged
C8_DeployUnknownDevice ==
    [][\A p \in Callers :
          (/\ Started(p)
           /\ call'.op = "deploy"
           /\ \A r \in devices : r.device_id # call'.device_id)
          => /\ pc'[p] = "idle"
             /\ ret'.caller = p
             /\ Failed(ret', "Device not found")
             /\ UNCHANGED Store]_vars

\* a deploy has just returned not-found while other devices are registered
C8_Witness ==
    /\ call.op = "deploy"
    /\ ret.op = "deploy"
    /\ ret.caller = call.caller
    /\ Failed(ret, "Device not found")
    /\ devices # {}
    /\ images # {}

\* C9: deploy for a registered device and an image_id that is not registered
\* returns the not-found failure; the call inserts no deployment row and
\* writes no boot configuration
C9_DeployUnknownImage ==
    [][\A p \in Callers :
          /\ (/\ Started(p)
              /\ call'.op = "deploy"
              /\ \E r \in devices : r.device_id = call'.device_id)
             => /\ pc'[p] = "deploy_load_image"
                /\ UNCHANGED Store
          /\ (/\ pc[p] = "deploy_load_image"
              /\ Acts(p)
              /\ \A r \in images : r.image_id # local[p].image_id)
             => /\ pc'[p] = "idle"
                /\ ret'.caller = p
                /\ Failed(ret', "Image not found")
                /\ UNCHANGED Store]_vars

\* a deploy for a registered device has just returned image-not-found while
\* another image is registered
C9_Witness ==
    /\ ret.op = "deploy"
    /\ Failed(ret, "Image not found")
    /\ devices # {}
    /\ images # {}

\* the rows of the deployment id
RowsOf(rows, deployment_id) == {r \in rows : r.deployment_id = deployment_id}

\* C10: when deploy returns after the strategy, its row is deploying with no
\* error_message if the strategy reported success and failed with the
\* strategy's non-empty error_message if it reported failure; the success flag
\* returned is true exactly when the row is deploying
C10_RowMatchesStrategyResult ==
    [][\A p \in Callers :
          (pc[p] = "deploy_update" /\ Acts(p))
          => LET result == local[p].result
                 rows   == RowsOf(deployments', local[p].deployment_id)
             IN /\ pc'[p] = "idle"
                /\ ret'.caller = p
                /\ ret'.deployment_id = local[p].deployment_id
                /\ Cardinality(rows) = 1
                /\ \A r \in rows :
                      /\ result.success
                            => r.status = "deploying" /\ r.error_message = NoError
                      /\ ~result.success
                            => /\ r.status = "failed"
                               /\ r.error_message = result.error
                               /\ r.error_message # NoError
                               /\ r.error_message # ""
                      /\ ret'.success <=> r.status = "deploying"]_vars

\* a deploy has just returned a strategy failure, its row is failed and an
\* earlier deployment is deploying
C10_Witness ==
    /\ ret.op = "deploy"
    /\ "deployment_id" \in DOMAIN ret
    /\ ~ret.success
    /\ \E r \in deployments : r.deployment_id = ret.deployment_id /\ r.status = "failed"
    /\ \E r \in deployments : r.status = "deploying"

\* the methods the dispatch recognises
Supported == {"pxe", "usb", "network"}

\* C11: a deploy whose method is none of pxe, usb, network creates or modifies
\* no boot-configuration artifact (nor any other delivery artifact) at any of
\* its steps, and when it reaches the dispatch it returns the
\* unsupported-method failure, which is also what its row records
C11_UnsupportedMethod ==
    [][\A p \in Callers :
          /\ (/\ Started(p)
              /\ call'.op = "deploy"
              /\ call'.deployment_method \notin Supported)
             => UNCHANGED <<pxeFiles, usbPackages, httpFiles>>
          /\ (/\ InFlight(p)
              /\ Acts(p)
              /\ local[p].deployment_method \notin Supported)
             => UNCHANGED <<pxeFiles, usbPackages, httpFiles>>
          /\ (/\ pc[p] = "deploy_update"
              /\ Acts(p)
              /\ local[p].deployment_method \notin Supported)
             => /\ ret'.caller = p
                /\ Failed(ret', UnsupportedMethod(local[p].deployment_method))
                /\ \A r \in RowsOf(deployments', local[p].deployment_id) :
                      /\ r.status = "failed"
                      /\ r.error_message = ret'.error]_vars

\* a deploy with method ftp has just returned the unsupported-method failure
\* while the device has a boot configuration from an earlier pxe deploy
C11_Witness ==
    /\ call.op = "deploy"
    /\ call.deployment_method = "ftp"
    /\ ret.op = "deploy"
    /\ Failed(ret, "Unsupported deployment method: ftp")
    /\ pxeFiles # << >>
    /\ \E r \in deployments : r.deployment_id = ret.deployment_id /\ r.status = "failed"

\* the boot configurations of device d: the file at the key of its MAC and
\* the files written by deployments of its device_id
ArtifactsOf(d) ==
    {k \in DOMAIN pxeFiles :
        \/ k = PxeConfigName(d.mac_address)
        \/ \E r \in deployments : /\ r.deployment_id = pxeFiles[k].deployment_id
                                  /\ r.device_id = d.device_id}

\* deployment_id is a pxe deployment of device d whose strategy reported
\* success: its row is deploying, or is about to be updated to deploying
SuccessfulPxe(d, deployment_id) ==
    \E r \in deployments :
        /\ r.deployment_id = deployment_id
        /\ r.device_id = d.device_id
        /\ r.deployment_method = "pxe"
        /\ \/ r.status = "deploying"
           \/ \E p \in Callers : /\ pc[p] = "deploy_update"
                                 /\ local[p].deployment_id = deployment_id
                                 /\ local[p].result.success

\* C12: a pxe deploy that succeeds writes the file 01-<MAC, lower case, ':'
\* replaced by '-'> with its deployment id and no other file; in every state
\* a device has at most one boot configuration, and it names a successful pxe
\* deployment of that device; only a successful pxe deploy or a cleanup
\* changes the boot configurations
C12_OneArtifactPerDevice ==
    /\ [](\A d \in devices :
            /\ Cardinality(ArtifactsOf(d)) <= 1
            /\ \A k \in ArtifactsOf(d) : SuccessfulPxe(d, pxeFiles[k].deployment_id))
    /\ [][\A p \in Callers :
            /\ (/\ pc[p] = "deploy_strategy"
                /\ Acts(p)
                /\ local[p].deployment_method = "pxe"
                /\ local'[p].result.success)
               => LET name == PxeTag \o Replace(Lower(local[p].device.mac_address), ":", "-")
                  IN /\ name \in DOMAIN pxeFiles'
                     /\ pxeFiles'[name].deployment_id = local[p].deployment_id
                     /\ DOMAIN pxeFiles' = DOMAIN pxeFiles \cup {name}
                     /\ \A k \in DOMAIN pxeFiles : k # name => pxeFiles'[k] = pxeFiles[k]
            /\ (/\ Acts(p)
                /\ pc[p] \notin {"deploy_strategy", "cleanup_unlink"})
               => UNCHANGED pxeFiles]_vars

\* C13: every boot configuration names the deployment_id of a deployment row
\* with method pxe, and the file it fetches is the file of the image row that
\* deployment row references
C13_ArtifactMatchesDeployment ==
    \A k \in DOMAIN pxeFiles :
        \E r \in deployments :
            /\ r.deployment_id = pxeFiles[k].deployment_id
            /\ r.deployment_method = "pxe"
            /\ \E i \in images : /\ i.image_id = r.image_id
                                 /\ i.file_path.name = pxeFiles[k].fetch

\* callers p and q are inside pxe deploys of the same device
BothDeployPxe(p, q) ==
    /\ p # q
    /\ InFlight(p) /\ InFlight(q)
    /\ local[p].device_id = local[q].device_id
    /\ local[p].deployment_method = "pxe"
    /\ local[q].deployment_method = "pxe"

\* C14: while two pxe deploys of the same device are both running, each is
\* accepted (its INSERT goes through and it proceeds to its strategy), a
\* strategy that succeeds leaves its own deployment id in the device's boot
\* configuration (the last writer wins), and its row ends as deploying
C14_InterleavedPxeDeploys ==
    [][\A p, q \in Callers :
          (BothDeployPxe(p, q) /\ Acts(p))
          => /\ pc[p] = "deploy_insert"
                => /\ pc'[p] = "deploy_strategy"
                   /\ \E r \in deployments' \ deployments :
                         r.deployment_id = local'[p].deployment_id
             /\ (pc[p] = "deploy_strategy" /\ local'[p].result.success)
                => LET name == PxeConfigName(local[p].device.mac_address)
                   IN /\ name \in DOMAIN pxeFiles'
                      /\ pxeFiles'[name].deployment_id = local[p].deployment_id
             /\ (pc[p] = "deploy_update" /\ local[p].result.success)
                => /\ ret'.success
                   /\ \A r \in RowsOf(deployments', local[p].deployment_id) :
                         r.status = "deploying"]_vars

\* the image rows registered from these bytes under this name and version
RegisteredAs(bytes, metadata) ==
    {r \in images : /\ r.sha256_hash = Sha256(bytes)
                    /\ r.metadata.name = metadata.name
                    /\ r.metadata.version = metadata.version}

\* the files of the serving directory that hold these bytes
StoredCopies(files, bytes) == {k \in DOMAIN files : files[k] = bytes}

\* C15: a register-image call whose source bytes have been registered before
\* under the same name and version copies nothing into the serving directory,
\* returns the image_id returned before, and leaves one image row with that
\* image_id and one stored copy of the bytes
C15_SameBytesRegisteredOnce ==
    [][\A p \in Callers :
          /\ (/\ Started(p)
              /\ call'.op = "register_image"
              /\ call'.image_path \in DOMAIN SrcFiles
              /\ RegisteredAs(SrcFiles[call'.image_path], call'.metadata) # {})
             => UNCHANGED httpFiles
          /\ (/\ pc[p] = "image_insert"
              /\ Acts(p)
              /\ RegisteredAs(SrcFiles[local[p].image_path], local[p].metadata) # {})
             => /\ ret'.success
                /\ \A r \in RegisteredAs(SrcFiles[local[p].image_path], local[p].metadata) :
                      ret'.image_id = r.image_id
                /\ Cardinality({r \in images' : r.image_id = ret'.image_id}) = 1
                /\ Cardinality(StoredCopies(httpFiles',
                                            SrcFiles[local[p].image_path])) = 1]_vars

\* C16: the image_id a register-image call returns differs from the image_id
\* of every image registered from other content
C16_DifferentBytesDifferentId ==
    [][\A p \in Callers :
          (pc[p] = "image_insert" /\ Acts(p))
          => \A r \in images :
                r.sha256_hash # Sha256(SrcFiles[local[p].image_path])
                    => r.image_id # ret'.image_id]_vars

\* C17: an image row, once it exists, stays in the table with every attribute
\* as it was
C17_ImageRowsImmutable ==
    [][\A r \in images : r \in images']_vars

\* C18: register-image for a source path that does not exist returns the
\* not-found failure, changes no image row and copies nothing
C18_MissingSourceRejected ==
    [][\A p \in Callers :
          (/\ Started(p)
           /\ call'.op = "register_image"
           /\ call'.image_path \notin DOMAIN SrcFiles)
          => /\ pc'[p] = "idle"
             /\ ret'.caller = p
             /\ Failed(ret', "Image file does not exist")
             /\ UNCHANGED Store]_vars

\* a registration of a missing file has just been refused while an image is
\* registered and served
C18_Witness ==
    /\ call.op = "register_image"
    /\ call.image_path = ImgGone
    /\ ret.op = "register_image"
    /\ Failed(ret, "Image file does not exist")
    /\ images # {}
    /\ httpFiles # << >>

HexChars == {"0","1","2","3","4","5","6","7","8","9",
             "a","b","c","d","e","f","A","B","C","D","E","F"}

\* six hex octets separated by ':' or '-'
WellFormedMac(mac) ==
    /\ Len(mac) = 17
    /\ \A i \in 1..17 : IF i % 3 = 0 THEN mac[i] \in {":", "-"} ELSE mac[i] \in HexChars

\* C19: register-device with no MAC, or with a MAC that is not six hex octets
\* separated by ':' or '-', returns a failure and changes no device row and
\* no reservation entry
C19_BadMacRejected ==
    [][\A p \in Callers :
          (/\ Started(p)
           /\ call'.op = "register_device"
           /\ ~WellFormedMac(call'.mac_address))
          => /\ pc'[p] = "idle"
             /\ ret'.caller = p
             /\ ~ret'.success
             /\ UNCHANGED <<devices, dhcpFile>>]_vars

\* the hex digits of a MAC in lower case
HexOf(mac) == Lower(SelectSeq(mac, LAMBDA c : c \in HexChars))

\* C20: register-device without a device_id stores the device under the 12
\* lower-case hex characters of its MAC, whatever the notation of the MAC
C20_DerivedIdCanonical ==
    [][\A p \in Callers :
          (/\ Started(p)
           /\ call'.op = "register_device"
           /\ call'.device_id = None
           /\ WellFormedMac(call'.mac_address))
          => \E r \in devices' :
                /\ r.mac_address = Replace(Lower(call'.mac_address), "-", ":")
                /\ r.device_id = HexOf(call'.mac_address)
                /\ Len(r.device_id) = 12]_vars

\* C21: registering a MAC that is already registered keeps, in the row of that
\* MAC, the attributes the registration does not carry: created_at, status,
\* current_image and target_image
C21_ReRegistrationKeepsAttributes ==
    [][\A p \in Callers :
          (/\ Started(p)
           /\ call'.op = "register_device"
           /\ call'.mac_address # None)
          => \A r \in devices :
                r.mac_address = Replace(Lower(call'.mac_address), "-", ":")
                => \E r2 \in devices' :
                      /\ r2.mac_address = r.mac_address
                      /\ r2.created_at = r.created_at
                      /\ r2.status = r.status
                      /\ r2.current_image = r.current_image
                      /\ r2.target_image = r.target_image]_vars

\* the key of the boot configuration of a MAC
KeyOfMac(mac_address) == PxeTag \o Replace(Lower(mac_address), ":", "-")

\* C22: cleanup of a registered device that has no boot configuration returns
\* success and changes no row and no artifact
C22_CleanupWithoutArtifact ==
    [][\A p \in Callers :
          /\ (/\ Started(p)
              /\ call'.op = "cleanup"
              /\ \E r \in devices : r.device_id = call'.device_id)
             => /\ pc'[p] = "cleanup_unlink"
                /\ UNCHANGED Store
          /\ (/\ pc[p] = "cleanup_unlink"
              /\ Acts(p)
              /\ KeyOfMac(local[p].device.mac_address) \notin DOMAIN pxeFiles)
             => /\ ret'.caller = p
                /\ ret'.success
                /\ UNCHANGED Store]_vars

\* a cleanup of a device without a boot configuration has just returned
\* success while the other device has one
C22_Witness ==
    /\ call.op = "cleanup"
    /\ ret.op = "cleanup"
    /\ ret.success
    /\ pxeFiles # << >>
    /\ \A d \in deployments : d.device_id # call.device_id
    /\ \E r \in devices : r.device_id = call.device_id

\* C23: cleanup of a device_id that is not registered reports success and
\* changes nothing
C23_CleanupUnknownDevice ==
    [][\A p \in Callers :
          (/\ Started(p)
           /\ call'.op = "cleanup"
           /\ \A r \in devices : r.device_id # call'.device_id)
          => /\ pc'[p] = "idle"
             /\ ret'.caller = p
             /\ ret'.success
             /\ UNCHANGED Store]_vars

\* C24: a cleanup changes no device, image or deployment row and no artifact
\* other than the boot configuration of its device, which it removes; a
\* cleanup that finds no boot configuration changes nothing
C24_CleanupRemovesOnlyOwnArtifact ==
    [][\A p \in Callers :
          /\ (Started(p) /\ call'.op = "cleanup") => UNCHANGED Store
          /\ (pc[p] = "cleanup_unlink" /\ Acts(p))
             => LET name == KeyOfMac(local[p].device.mac_address)
                IN /\ UNCHANGED <<devices, images, deployments, httpFiles,
                                  usbPackages, dhcpFile>>
                   /\ DOMAIN pxeFiles' \subseteq DOMAIN pxeFiles
                   /\ \A k \in DOMAIN pxeFiles :
                         k # name => k \in DOMAIN pxeFiles' /\ pxeFiles'[k] = pxeFiles[k]
                   /\ ret'.success => name \notin DOMAIN pxeFiles'
                   /\ name \notin DOMAIN pxeFiles => UNCHANGED pxeFiles]_vars

\* a cleanup has just removed the boot configuration of a device: the
\* deployment that wrote it is still deploying and the other device keeps
\* its boot configuration
C24_Witness ==
    /\ call.op = "cleanup"
    /\ ret.op = "cleanup"
    /\ ret.success
    /\ \E r \in devices :
          /\ r.device_id = call.device_id
          /\ KeyOfMac(r.mac_address) \notin DOMAIN pxeFiles
    /\ \E d \in deployments : d.device_id = call.device_id /\ d.status = "deploying"
    /\ \E r \in devices :
          /\ r.device_id # call.device_id
          /\ KeyOfMac(r.mac_address) \in DOMAIN pxeFiles

\* the MAC of a reservation line: what stands between "dhcp-host=" and the
\* first comma
MacOfLine(line) ==
    LET comma == CHOOSE i \in 1..Len(line) :
                    line[i] = "," /\ \A j \in 1..(i - 1) : line[j] # ","
    IN SubSeq(line, Len(DhcpHost) + 1, comma - 1)

LinesOfMac(lines, mac_address) ==
    {i \in 1..Len(lines) : MacOfLine(lines[i]) = mac_address}

\* the lines of the other MACs, in order
OtherLines(lines, mac_address) ==
    SelectSeq(lines, LAMBDA l : MacOfLine(l) # mac_address)

\* the reservation artifact holds one line for the MAC, mapping it to the IP,
\* and the lines of the other MACs are the ones of file
ReservedIn(file, mac_address, ip_address) ==
    /\ dhcpFile'.exists
    /\ Cardinality(LinesOfMac(dhcpFile'.lines, mac_address)) = 1
    /\ \A i \in LinesOfMac(dhcpFile'.lines, mac_address) :
          dhcpFile'.lines[i] = DhcpHost \o mac_address \o <<",">> \o ip_address \o Lease
    /\ OtherLines(dhcpFile'.lines, mac_address)
          = IF file.exists THEN OtherLines(file.lines, mac_address) ELSE << >>

StoredFor(p, rows) ==
    {r \in rows : /\ r.device_id = local[p].device_id
                  /\ r.mac_address = local[p].mac_address
                  /\ r.ip_address = local[p].ip_address}

\* C26: a register-device call with a well-formed MAC and an IP returns
\* success and leaves its device row stored, whether or not the write of the
\* reservation artifact went through
C26_RegistrationSurvivesReservation ==
    [][\A p \in Callers :
          (/\ pc[p] = "dhcp_write"
           /\ Acts(p)
           /\ call.caller = p
           /\ WellFormedMac(call.mac_address))
          => /\ ret'.op = "register_device"
             /\ ret'.success
             /\ ret'.device_id = local[p].device_id
             /\ StoredFor(p, devices') # {}]_vars

\* a registration with an IP has returned success although the reservation
\* artifact could not be written: the device row is there, the line is not
C26_Witness ==
    /\ ret.op = "register_device"
    /\ ret.success
    /\ call.op = "register_device"
    /\ call.ip_address = Ip1
    /\ WellFormedMac(call.mac_address)
    /\ ~dhcpFile.exists
    /\ \E r \in devices : /\ r.device_id = ret.device_id
                          /\ r.ip_address = Ip1

\* the call that caller p is executing in this step
CallOf(p) == IF Started(p) THEN call' ELSE call

\* the deployment rows of a call: those of its device, image and method
RowsOfCall(rows, c) ==
    {r \in rows : /\ r.device_id = c.device_id
                  /\ r.image_id = c.image_id
                  /\ r.deployment_method = c.deployment_method}

\* C27: no step of a deploy with method network or usb writes, changes or
\* removes a boot configuration, a device row or an image row; of the
\* deployment rows it adds or changes at most one, a row of its own
C27_NetworkUsbFrame ==
    [][\A p \in Callers :
          (/\ Acts(p)
           /\ CallOf(p).caller = p
           /\ CallOf(p).op = "deploy"
           /\ CallOf(p).deployment_method \in {"network", "usb"})
          => /\ pxeFiles' = pxeFiles
             /\ devices' = devices
             /\ images' = images
             /\ Cardinality(deployments' \ deployments) <= 1
             /\ Cardinality(deployments \ deployments') <= 1
             /\ {r.deployment_id : r \in deployments}
                   \subseteq {r.deployment_id : r \in deployments'}
             /\ (deployments' \ deployments) \cup (deployments \ deployments')
                   \subseteq RowsOfCall(deployments \cup deployments', CallOf(p))]_vars

\* a usb deploy has been dispatched for a device that has a boot configuration
\* from an earlier pxe deploy
C27_Witness ==
    /\ ret.op = "deploy"
    /\ ret.success
    /\ ret.method = "usb"
    /\ pxeFiles # << >>
    /\ \E r \in deployments : /\ r.deployment_id = ret.deployment_id
                              /\ r.deployment_method = "usb"
                              /\ r.status = "deploying"

PublicOperations == {"register_device", "register_image", "deploy", "cleanup"}

\* C28: whatever a public operation returns carries an explicit success flag;
\* a deploy whose delivery strategy failed returns that failure as a result
\* and its deployment row is failed, and no deploy that has returned left its
\* row pending
C28_FailuresAreResults ==
    /\ [](/\ ret.op # "none"
             => /\ ret.op \in PublicOperations
                /\ "success" \in DOMAIN ret
                /\ ret.success \in BOOLEAN
          /\ (ret.op = "deploy" /\ "deployment_id" \in DOMAIN ret)
             => \A r \in deployments :
                   r.deployment_id = ret.deployment_id => r.status # "pending")
    /\ [][\A p \in Callers :
            (/\ pc[p] = "deploy_update"
             /\ Acts(p)
             /\ ~local[p].result.success)
            => /\ ret'.op = "deploy"
               /\ ~ret'.success
               /\ ret'.error = local[p].result.error
               /\ \E r \in deployments' : r.deployment_id = local[p].deployment_id
               /\ \A r \in deployments' :
                     r.deployment_id = local[p].deployment_id
                     => r.status = "failed" /\ r.error_message = local[p].result.error]_vars

\* a usb deploy whose image copy failed has returned the failure and its row
\* is failed
C28_Witness ==
    /\ ret.op = "deploy"
    /\ call.deployment_method = "usb"
    /\ Failed(ret, "OSError")
    /\ \E r \in deployments : /\ r.deployment_id = ret.deployment_id
                              /\ r.status = "failed"
                              /\ r.error_message = "OSError"

\* C29: every device row has status registered in every reachable state, and
\* no step of a deploy or of a cleanup changes a device row
C29_DeviceStatusRegistered ==
    /\ [](\A r \in devices : r.status = "registered")
    /\ [][\A p \in Callers :
            (/\ Acts(p)
             /\ CallOf(p).caller = p
             /\ CallOf(p).op \in {"deploy", "cleanup"})
            => devices' = devices]_vars

\* a device has been deployed to and cleaned up, and its row still says
\* registered
C29_Witness ==
    /\ ret.op = "cleanup"
    /\ ret.success
    /\ \E r \in devices :
          /\ r.device_id = call.device_id
          /\ r.status = "registered"
          /\ \E d \in deployments : /\ d.device_id = r.device_id
                                    /\ d.status = "deploying"

\* the arguments each command cannot do without
MissingRequired(args) ==
    \/ args.command = "register" /\ args.mac_address = None
    \/ args.command = "deploy" /\ (args.device_id = None \/ args.image_id = None)
    \/ args.command = "cleanup" /\ args.device_id = None
    \/ args.command = "register-image" /\ args.image_path = NoPath

\* an argument whose text is not one of the values it may take
Unparsable(args) ==
    \/ args.command \notin {"register", "deploy", "list", "cleanup", "register-image"}
    \/ args.method \notin {NoText, "pxe", "usb", "network"}
    \/ args.command = "register-image" /\ args.metadata \notin {NoText, JsonKiosk}

\* C30: an invocation of the command line exits non-zero exactly when a
\* required argument is missing or unparsable, and then no operation is called
\* and nothing is changed; whatever an operation returns, a failure included,
\* is printed and the exit status is zero
C30_ExitStatus ==
    /\ [](/\ ret.op = "main"
             => /\ ret.exit # 0
                /\ call.op = "main"
                /\ MissingRequired(call.args) \/ Unparsable(call.args)
          /\ ret.op \notin {"none", "main"} => ret.exit = 0)
    /\ [][\A p \in Callers, args \in CliInputs :
            (Started(p) /\ Main(p, args))
            => IF MissingRequired(args) \/ Unparsable(args)
               THEN ret'.op = "main" /\ ret'.exit # 0 /\ UNCHANGED <<Store, pc>>
               ELSE call'.op # "main" /\ ret'.op # "main"]_vars

\* a deploy whose strategy failed was printed and the command exited zero
C30_Witness ==
    /\ ret.op = "deploy"
    /\ Failed(ret, "OSError")
    /\ ret.exit = 0
    /\ \E r \in deployments : r.deployment_id = ret.deployment_id /\ r.status = "failed"

\* C31: the INSERT of a deploy call that found its device and its image, for
\* a supported method, adds exactly one deployment row, under a deployment_id
\* that no row had, and the call goes on to its strategy
C31_FreshDeploymentRow ==
    [][\A p \in Callers :
          (/\ pc[p] = "deploy_insert"
           /\ Acts(p)
           /\ local[p].deployment_method \in Supported)
          => /\ deployments \subseteq deployments'
             /\ Cardinality(deployments' \ deployments) = 1
             /\ \A r2 \in deployments' \ deployments :
                   /\ r2.device_id = local[p].device_id
                   /\ \A r \in deployments : r.deployment_id # r2.deployment_id
             /\ pc'[p] = "deploy_strategy"]_vars

\* the deployment ids that can be allocated
DeploymentIds ==
    {MakeDeploymentId(t, d) : t \in 0..MaxClock, d \in {DerivedId, KioskA}}

PendingRows(deployment_id) ==
    {r \in deployments : r.deployment_id = deployment_id /\ r.status = "pending"}

\* C32: a deployment row is pending only while the deploy call that inserted
\* it is between its INSERT and its UPDATE, and every pending row eventually
\* becomes deploying or failed
C32_PendingIsTransient ==
    /\ [](\A r \in deployments :
            r.status = "pending"
            => \E p \in Callers : /\ pc[p] \in {"deploy_strategy", "deploy_update"}
                                  /\ local[p].deployment_id = r.deployment_id)
    /\ \A id \in DeploymentIds :
          (PendingRows(id) # {})
          ~> (\E r \in deployments : /\ r.deployment_id = id
                                     /\ r.status \in {"deploying", "failed"})

\* one deploy has returned with its row deploying while the row of an
\* overlapping deploy is still pending
C32_Witness ==
    /\ ret.op = "deploy"
    /\ ret.success
    /\ \E r \in deployments : r.deployment_id = ret.deployment_id /\ r.status = "deploying"
    /\ \E r \in deployments : r.status = "pending"

\* the boot configurations in files that were written by a deployment of the
\* device
WrittenFor(files, device_id) ==
    {k \in DOMAIN files :
        \E r \in deployments : /\ r.device_id = device_id
                               /\ r.deployment_id = files[k].deployment_id}

\* C33: when cleanup of a device returns success, no boot configuration
\* written by a deployment of that device is left
C33_CleanupLeavesNoArtifact ==
    [][\A p \in Callers :
          (/\ pc[p] = "cleanup_unlink"
           /\ Acts(p)
           /\ ret'.success)
          => WrittenFor(pxeFiles', local[p].device.device_id) = {}]_vars

\* C34: the rewrite of the reservation artifact by a register-device call
\* keeps the reservation line of every other MAC, also when the read and the
\* rewrite of another call fall between its own read and rewrite
C34_NoReservationLost ==
    [][\A p \in Callers :
          (pc[p] = "dhcp_write" /\ Acts(p))
          => \A i \in 1..Len(dhcpFile.lines) :
                MacOfLine(dhcpFile.lines[i]) # local[p].mac_address
                => \E j \in 1..Len(dhcpFile'.lines) :
                      dhcpFile'.lines[j] = dhcpFile.lines[i]]_vars

\* every reservation line of file carries the ip_address of the device row
\* that has the MAC of the line
Agree(file, rows) ==
    \A i \in 1..Len(file.lines) :
        \A r \in rows :
            r.mac_address = MacOfLine(file.lines[i])
            => file.lines[i]
                  = DhcpHost \o r.mac_address \o <<",">> \o r.ip_address \o Lease

\* C35: when a register-device call has returned success, the IP on every
\* reservation line is the ip_address of the device row with the MAC of the
\* line
C35_ReservationsMatchDevices ==
    [][\A p \in Callers :
          (/\ Acts(p)
           /\ pc'[p] = "idle"
           /\ ret'.op = "register_device"
           /\ ret'.success)
          => Agree(dhcpFile', devices')]_vars

\* C36: a pxe strategy that reports failure leaves every boot configuration
\* as it was, and no boot configuration carries the id of a failed deployment
C36_FailedPxeLeavesArtifact ==
    /\ [][\A p \in Callers :
            (/\ pc[p] = "deploy_strategy"
             /\ Acts(p)
             /\ local[p].deployment_method = "pxe"
             /\ ~local'[p].result.success)
            => pxeFiles' = pxeFiles]_vars
    /\ [](\A k \in DOMAIN pxeFiles :
            \A r \in deployments :
               r.deployment_id = pxeFiles[k].deployment_id => r.status # "failed")

\* C37: when a deploy with method network returns success, the image_hash it
\* returns is the SHA-256 of the bytes that the serving directory holds under
\* the image_url it returns
C37_NetworkHashMatchesServedBytes ==
    (/\ ret.op = "deploy"
     /\ ret.success
     /\ ret.method = "network")
    => /\ ret.image_url \in DOMAIN httpFiles
       /\ Sha256(httpFiles[ret.image_url]) = ret.image_hash

\* a step of the agent that handled the command at its loop position
Handled == agent'.next = agent.next + 1

\* the result posted last
Report == agent.posted[Len(agent.posted)]

\* the update_image commands whose options are an object
IsUpdate(command) == command.type = "update_image" /\ command.data.kind = "object"

\* C38: the agent writes the update script, and reports the update as
\* scheduled, only if the SHA-256 of the bytes it downloaded equals the
\* image_hash of the command; when the two differ it reports a failure, the
\* downloaded file is gone and the update script is left as it was
C38_UpdateOnlyIfVerified ==
    [][Handled /\ IsUpdate(agent.commands[agent.next])
       => LET command == agent.commands[agent.next]
              temp_image == TempImage(now)
          IN /\ (agent'.script # agent.script \/ Report'.result.success)
                => /\ agent'.received # NoBytes
                   /\ Sha256(agent'.received) = command.data.image_hash
                   /\ temp_image \in DOMAIN agent'.downloads
                   /\ agent'.downloads[temp_image] = agent'.received
             /\ Report'.result.success => agent'.script = UpdateScript(temp_image)
             /\ (agent'.received # NoBytes
                 /\ Sha256(agent'.received) # command.data.image_hash)
                => /\ Report'.command_id = command.id
                   /\ ~Report'.result.success
                   /\ temp_image \notin DOMAIN agent'.downloads
                   /\ agent'.script = agent.script]_vars

\* the file served is not the one the command expected: the update was
\* refused for its hash, nothing is left of the download and no script exists
C38_Witness ==
    /\ agent.posted # << >>
    /\ Report.command_id = CmdUpdateOld.id
    /\ Report.result.error = "Image hash mismatch"
    /\ agent.received = Bytes1
    /\ agent.script = NoScript
    /\ agent.downloads = << >>

\* an update was scheduled with the bytes the command named
C38_Scheduled ==
    /\ agent.posted # << >>
    /\ Report.command_id = CmdUpdate.id
    /\ Report.result.success
    /\ agent.script.text = "cp"
    /\ Sha256(agent.downloads[agent.script.image]) = CmdUpdate.data.image_hash

\* the ids of the commands among the elements of a response, in their order
RECURSIVE CommandIds(_)
CommandIds(commands) ==
    IF commands = << >> THEN << >>
    ELSE IF Head(commands).json = "object"
    THEN <<Head(commands).id>> \o CommandIds(Tail(commands))
    ELSE CommandIds(Tail(commands))

\* the ids under which results were posted, in their order
PostedIds == [i \in 1..Len(agent.posted) |-> agent.posted[i].command_id]

\* C39: for every command of a heartbeat response the agent posts exactly one
\* result under the id of the command, in the order of the response: the
\* results posted are never more than one per command and in that order, the
\* loop over the commands comes to its end, and at its end every command of
\* the response has its result
C39_OneResultPerCommand ==
    /\ [](\E n \in 0..Len(CommandIds(agent.commands)) :
             PostedIds = SubSeq(CommandIds(agent.commands), 1, n))
    /\ [](agent.next > Len(agent.commands)
          => PostedIds = CommandIds(agent.commands))
    /\ (agent.next <= Len(agent.commands)) ~> (agent.next > Len(agent.commands))

====
